---- MODULE Spec2Model ----
(***************************************************************************)
(* Model of src/main.py: the Streamlit script of the Deep Research Agent.  *)
(* One script run reads the two secrets, renders the topic input and, when *)
(* "Start Research" is pressed, runs run_research_process: the research    *)
(* agent (which may call the deep_research tool), then the elaboration     *)
(* agent.  The agent runtime, the language model and the research service  *)
(* are external: what they return, raise or pass as tool arguments is      *)
(* chosen nondeterministically from small sets.                            *)
(*                                                                         *)
(* Texts are sequences of tokens: one-character strings for the text that  *)
(* varies, one token for each literal piece of an f-string.  An optional   *)
(* value (a Python name not yet bound, an empty placeholder) is <<>> or    *)
(* <<v>>.                                                                  *)
(***************************************************************************)
EXTENDS Integers, Sequences, FiniteSets, TLC

\* ---------------------------------------------------------------- bounds
MaxLen == 2        \* longest topic / initial report text
MaxFinalLen == 1   \* longest enhanced report text
MaxToolCalls == 1  \* tool calls the research agent makes in one run
MaxNotes == 1      \* progress notifications delivered during one tool call
MaxSources == 1    \* longest source list of a service response

\* ------------------------------------------------------ program constants
InstructedMaxDepth == 3
InstructedTimeLimit == 180
InstructedMaxUrls == 10

\* ------------------------------------------------------------------ texts
Chars == {"a", " "}

Text == UNION {[1..n -> Chars] : n \in 0..MaxLen}

FinalText == UNION {[1..n -> Chars] : n \in 0..MaxFinalLen}

Range(s) == {s[i] : i \in DOMAIN s}

None == <<>>

Some(v) == <<v>>

IsSubstring(s, t) ==
    \E i \in 0..(Len(t) - Len(s)) : SubSeq(t, i + 1, i + Len(s)) = s

\* str.replace(' ', '_') of the download's file name
ReplaceSpaces(s) == [i \in 1..Len(s) |-> IF s[i] = " " THEN "_" ELSE s[i]]

\* messages str(e) of the exceptions the external calls raise (may be empty)
ExcMsgs == {<<>>, <<"timeout">>}

\* str(KeyError(k))
KeyErrorMsg(k) == <<"'", k, "'">>

\* -------------------------------------------------------------- secrets
SecretNames == {"openai_api_key", "firecrawl_api_key"}

VARIABLES
    secrets,            \* the names present in st.secrets
    pc,                 \* position of the script / the pipeline
    default_openai_key, \* set_default_openai_key has been called
    research_topic,     \* value of the topic text input
    errors,             \* st.error / st.warning messages on the page, in order
    activity_log,       \* lines written by on_activity
    expander,           \* content of "View Initial Research Report"
    report_placeholder, \* content of the st.empty() placeholder
    download,           \* the download button offered
    initial_report,     \* run_research_process local
    elaboration_input,  \* run_research_process local
    enhanced_report,    \* handler local
    tool_calls,         \* deep_research calls made in this run
    params,             \* deep_research local: params handed to the service
    query,              \* deep_research argument
    response,           \* what the research service answers to the pending call
    notes,              \* notifications delivered during the pending call
    tool_result,        \* outcome of the last deep_research call
    events              \* order of the run's invocations and displays

vars == <<secrets, pc, default_openai_key, research_topic, errors, activity_log,
          expander, report_placeholder, download, initial_report,
          elaboration_input, enhanced_report, tool_calls, params, query,
          response, notes, tool_result, events>>

page == <<errors, activity_log, expander, report_placeholder, download>>

locals == <<initial_report, elaboration_input, enhanced_report>>

tool == <<tool_calls, params, query, response, notes, tool_result>>

\* ------------------------------------------------------- startup (34-51)
ApiKeysMsg == <<"API keys not found in secrets. Please check your Streamlit settings.">>

\* Variant: only the first secret is looked up.
ReadSecretsOpenAIOnly ==
    IF "openai_api_key" \notin secrets THEN [raised |-> TRUE, key |-> "openai_api_key"]
    ELSE [raised |-> FALSE, key |-> ""]

\* The try body of lines 34-37: st.secrets[...] raises KeyError for the first
\* name that is absent; the openai key is read first.
ReadSecrets ==
    IF "openai_api_key" \notin secrets THEN [raised |-> TRUE, key |-> "openai_api_key"]
    ELSE IF "firecrawl_api_key" \notin secrets
         THEN [raised |-> TRUE, key |-> "firecrawl_api_key"]
         ELSE [raised |-> FALSE, key |-> ""]

\* Lines 34-51: on KeyError st.error and st.stop() end the script before the
\* topic input is rendered; otherwise the default key is set and the input
\* is rendered.
Startup ==
    /\ pc = "startup"
    /\ IF ReadSecrets.raised
       THEN /\ errors' = Append(errors, ApiKeysMsg)
            /\ pc' = "halted"
            /\ UNCHANGED default_openai_key
       ELSE /\ default_openai_key' = TRUE
            /\ pc' = "idle"
            /\ UNCHANGED errors
    /\ UNCHANGED <<secrets, research_topic, activity_log, expander,
                   report_placeholder, download, locals, tool, events>>

\* Line 51: the user types a topic (possibly empty) into the text input.
EnterTopic(t) ==
    /\ pc = "idle"
    /\ research_topic' = t
    /\ UNCHANGED <<secrets, pc, default_openai_key, page, locals, tool, events>>

\* ------------------------------------------------- handler (159-183)
\* Line 159: the button is disabled while the topic is empty.
ButtonEnabled(topic) == topic # <<>>

HandlerErrorMsg(e) == <<"An error occurred: ">> \o e

\* Lines 159-168 up to the first await: the button is pressed, the (empty)
\* placeholder is created and run_research_process starts the research agent.
StartResearch ==
    /\ pc = "idle"
    /\ ButtonEnabled(research_topic)
    /\ research_topic # <<>>                 \* line 160, the else branch
    /\ report_placeholder' = None            \* st.empty()
    /\ events' = Append(events, "research_start")
    /\ pc' = "research"
    /\ UNCHANGED <<secrets, default_openai_key, research_topic, errors,
                   activity_log, expander, download, locals, tool>>

\* Lines 182-183: an exception of run_research_process reaches the handler.
HandlerExcept(e, ev) ==
    /\ errors' = Append(errors, HandlerErrorMsg(e))
    /\ events' = events \o <<ev, "error">>
    /\ pc' = "error"

\* ------------------------------------------- deep_research (54-90)
\* Lines 64-68: the parameters handed to the service are the call's arguments.
BuildParams(max_depth, time_limit, max_urls) ==
    [maxDepth |-> max_depth, timeLimit |-> time_limit, maxUrls |-> max_urls]

\* Argument triples the language model may pass; lines 99-102 only instruct it.
ParamChoices == {<<InstructedMaxDepth, InstructedTimeLimit, InstructedMaxUrls>>,
                 <<5, 60, 20>>}

Sources(n) == [i \in 1..n |-> "url"]

\* What the research service may answer: an exception, a well-formed
\* response, or a response lacking one of the keys lines 84-86 read.
Responses ==
    {[kind |-> "raise", msg |-> e, results |-> None] : e \in ExcMsgs}
    \cup {[kind |-> "return", msg |-> None,
           results |-> [data |-> [finalAnalysis |-> fa, sources |-> Sources(n)]]]
            : fa \in Text, n \in 0..MaxSources}
    \cup {[kind |-> "return", msg |-> None, results |-> [success |-> FALSE]]}
    \cup {[kind |-> "return", msg |-> None,
           results |-> [data |-> [sources |-> Sources(n)]]] : n \in 0..MaxSources}
    \cup {[kind |-> "return", msg |-> None,
           results |-> [data |-> [finalAnalysis |-> fa]]] : fa \in Text}

\* Progress notifications of the service: dicts that may lack a key.
Activities == {[type |-> "search", message |-> "m"],
               [type |-> "search"],
               [message |-> "m"]}

\* Lines 71-72: the f-string subscripts 'type', then 'message'.
on_activity(activity) ==
    IF "type" \notin DOMAIN activity
    THEN [raised |-> TRUE, exc |-> KeyErrorMsg("type"), line |-> None]
    ELSE IF "message" \notin DOMAIN activity
    THEN [raised |-> TRUE, exc |-> KeyErrorMsg("message"), line |-> None]
    ELSE [raised |-> FALSE, exc |-> None,
          line |-> <<"[", activity.type, "] ", activity.message>>]

\* Variant: the dict is filled key by key and a missing 'sources' is reported
\* in the dict already begun.
SuccessResultPartial(results) ==
    IF "data" \notin DOMAIN results
    THEN [raised |-> TRUE, exc |-> KeyErrorMsg("data"), value |-> None]
    ELSE IF "finalAnalysis" \notin DOMAIN results.data
    THEN [raised |-> TRUE, exc |-> KeyErrorMsg("finalAnalysis"), value |-> None]
    ELSE IF "sources" \notin DOMAIN results.data
    THEN [raised |-> FALSE, exc |-> None,
          value |-> [success |-> TRUE,
                     final_analysis |-> results.data.finalAnalysis,
                     error |-> KeyErrorMsg("sources")]]
    ELSE [raised |-> FALSE, exc |-> None,
          value |-> [success |-> TRUE,
                     final_analysis |-> results.data.finalAnalysis,
                     sources_count |-> Len(results.data.sources),
                     sources |-> results.data.sources]]

\* Lines 82-87: the success dict; a missing key raises KeyError.
SuccessResult(results) ==
    IF "data" \notin DOMAIN results
    THEN [raised |-> TRUE, exc |-> KeyErrorMsg("data"), value |-> None]
    ELSE IF "finalAnalysis" \notin DOMAIN results.data
    THEN [raised |-> TRUE, exc |-> KeyErrorMsg("finalAnalysis"), value |-> None]
    ELSE IF "sources" \notin DOMAIN results.data
    THEN [raised |-> TRUE, exc |-> KeyErrorMsg("sources"), value |-> None]
    ELSE [raised |-> FALSE, exc |-> None,
          value |-> [success |-> TRUE,
                     final_analysis |-> results.data.finalAnalysis,
                     sources_count |-> Len(results.data.sources),
                     sources |-> results.data.sources]]

\* Lines 76-87: the service call followed by the return statement.
TryBody(resp) ==
    IF resp.kind = "raise"
    THEN [raised |-> TRUE, exc |-> resp.msg, value |-> None]
    ELSE SuccessResult(resp.results)

\* Variant: the handler shows the error and raises it again.
ExceptHandlerReraise(e) ==
    [raised |-> TRUE, exc |-> e, value |-> None,
     shown |-> <<(<<"Deep research error: ">> \o e)>>]

\* Lines 88-90: except Exception: st.error and the failure dict.
ExceptHandler(e) ==
    [raised |-> FALSE, exc |-> None,
     value |-> [error |-> e, success |-> FALSE],
     shown |-> <<(<<"Deep research error: ">> \o e)>>]

\* Lines 59-90: what a try body that ended as `body` makes the call return.
Outcome(body) ==
    IF body.raised THEN ExceptHandler(body.exc)
    ELSE [raised |-> FALSE, exc |-> None, value |-> body.value, shown |-> <<>>]

\* The call ends and control returns to the agent runtime.
ToolEnds(outcome) ==
    /\ tool_result' = Some([raised |-> outcome.raised, value |-> outcome.value])
    /\ errors' = errors \o outcome.shown
    /\ events' = Append(events, "tool_return")
    /\ pc' = "research"

\* The research agent calls the tool (lines 55-80 up to the service call):
\* the language model chooses the arguments, the service its answer.
CallTool(q, p, resp) ==
    /\ pc = "research"
    /\ tool_calls < MaxToolCalls
    /\ tool_calls' = tool_calls + 1
    /\ query' = q
    /\ params' = Some(BuildParams(p[1], p[2], p[3]))
    /\ response' = Some(resp)
    /\ notes' = 0
    /\ tool_result' = None
    /\ events' = Append(events, "tool_call")
    /\ pc' = "tool"
    /\ UNCHANGED <<secrets, default_openai_key, research_topic, page, locals>>

\* Lines 71-72 run inside the service call: a notification is written to the
\* page, or its KeyError leaves the call and is caught at line 88.
DeliverActivity(a) ==
    /\ pc = "tool"
    /\ notes < MaxNotes
    /\ LET r == on_activity(a) IN
       IF r.raised
       THEN /\ ToolEnds(ExceptHandler(r.exc))
            /\ UNCHANGED <<activity_log, notes>>
       ELSE /\ activity_log' = Append(activity_log, r.line)
            /\ notes' = notes + 1
            /\ UNCHANGED <<errors, tool_result, events, pc>>
    /\ UNCHANGED <<secrets, default_openai_key, research_topic, expander,
                   report_placeholder, download, locals, tool_calls, params,
                   query, response>>

\* Lines 76-90: the service answers and deep_research returns.
ServiceAnswers ==
    /\ pc = "tool"
    /\ ToolEnds(Outcome(TryBody(response[1])))
    /\ UNCHANGED <<secrets, default_openai_key, research_topic, activity_log,
                   expander, report_placeholder, download, locals, tool_calls,
                   params, query, response, notes>>

\* --------------------------------------- run_research_process (130-156)
\* Variant: the report is cut to its first character.
ElaborationInputTruncated(topic, report) ==
    <<"\n        RESEARCH TOPIC: ">> \o topic
    \o <<"\n\n        INITIAL RESEARCH REPORT:\n        ">>
    \o SubSeq(report, 1, 1)
    \o <<"\n\n        Please enhance this research report with additional information, examples, case studies,\n        and deeper insights while maintaining its academic rigor and factual accuracy.\n        ">>

\* Lines 143-151: the f-string handed to the elaboration agent.
ElaborationInput(topic, report) ==
    <<"\n        RESEARCH TOPIC: ">> \o topic
    \o <<"\n\n        INITIAL RESEARCH REPORT:\n        ">> \o report
    \o <<"\n\n        Please enhance this research report with additional information, examples, case studies,\n        and deeper insights while maintaining its academic rigor and factual accuracy.\n        ">>

\* Variant: the expander is left out.
ExpanderBodyMissing(report) == None

\* Lines 138-139: the expander shows the initial report.
ExpanderBody(report) == Some(report)

\* Lines 134-139: the research agent returns; its output is shown in the
\* expander.  The locals of the finished tool calls are gone.
ResearchReturns(r) ==
    /\ pc = "research"
    /\ initial_report' = Some(r)
    /\ expander' = ExpanderBody(r)
    /\ events' = events \o <<"research_return", "show_initial">>
    /\ pc' = "enhance"
    /\ params' = None /\ query' = None /\ response' = None
    /\ notes' = 0 /\ tool_result' = None
    /\ UNCHANGED <<secrets, default_openai_key, research_topic, errors,
                   activity_log, report_placeholder, download,
                   elaboration_input, enhanced_report, tool_calls>>

\* Variant: the failure is swallowed and the pipeline goes on with an empty
\* report.
ResearchRaisesSwallowed(e) ==
    /\ pc = "research"
    /\ initial_report' = Some(<<>>)
    /\ expander' = ExpanderBody(<<>>)
    /\ events' = events \o <<"research_raise", "show_initial">>
    /\ pc' = "enhance"
    /\ params' = None /\ query' = None /\ response' = None
    /\ notes' = 0 /\ tool_result' = None
    /\ UNCHANGED <<secrets, default_openai_key, research_topic, errors,
                   activity_log, report_placeholder, download,
                   elaboration_input, enhanced_report, tool_calls>>

\* Line 134 raises: the exception leaves run_research_process and asyncio.run.
ResearchRaises(e) ==
    /\ pc = "research"
    /\ HandlerExcept(e, "research_raise")
    /\ params' = None /\ query' = None /\ response' = None
    /\ notes' = 0 /\ tool_result' = None
    /\ UNCHANGED <<secrets, default_openai_key, research_topic, activity_log,
                   expander, report_placeholder, download, locals, tool_calls>>

\* Lines 142-153: the input is built and the elaboration agent is started.
StartElaboration ==
    /\ pc = "enhance"
    /\ elaboration_input' = Some(ElaborationInput(research_topic, initial_report[1]))
    /\ events' = Append(events, "elab_start")
    /\ pc' = "elaboration"
    /\ UNCHANGED <<secrets, default_openai_key, research_topic, page,
                   initial_report, enhanced_report, tool>>

\* Line 178: the download's file name.
FileName(topic) == ReplaceSpaces(topic) \o <<"_report.md">>

\* Lines 153-156 and 168-180: the elaboration agent returns; the placeholder
\* gets the heading, then the report in its place; the download is offered.
ElaborationReturns(r) ==
    /\ pc = "elaboration"
    /\ enhanced_report' = Some(r)
    /\ report_placeholder' = Some(r)
    /\ download' = Some([data |-> r, file_name |-> FileName(research_topic)])
    /\ events' = events \o <<"elab_return", "show_final", "download">>
    /\ pc' = "done"
    /\ UNCHANGED <<secrets, default_openai_key, research_topic, errors,
                   activity_log, expander, initial_report, elaboration_input,
                   tool>>

\* Variant: on failure the initial report is shown as the final one.
ElaborationRaisesFallback(e) ==
    /\ pc = "elaboration"
    /\ HandlerExcept(e, "elab_raise")
    /\ report_placeholder' = initial_report
    /\ UNCHANGED <<secrets, default_openai_key, research_topic, activity_log,
                   expander, download, locals, tool>>

\* Line 153 raises.
ElaborationRaises(e) ==
    /\ pc = "elaboration"
    /\ HandlerExcept(e, "elab_raise")
    /\ UNCHANGED <<secrets, default_openai_key, research_topic, activity_log,
                   expander, report_placeholder, download, locals, tool>>

\* The user interacts again (or reloads): Streamlit reruns the script from
\* the top with an empty page; the secrets and the input's value stay.
Rerun ==
    /\ pc \in {"done", "error", "halted"}
    /\ pc' = "startup"
    /\ default_openai_key' = FALSE
    /\ errors' = <<>> /\ activity_log' = <<>> /\ expander' = None
    /\ report_placeholder' = None /\ download' = None
    /\ initial_report' = None /\ elaboration_input' = None
    /\ enhanced_report' = None
    /\ tool_calls' = 0 /\ params' = None /\ query' = None /\ response' = None
    /\ notes' = 0 /\ tool_result' = None
    /\ events' = <<>>
    /\ UNCHANGED <<secrets, research_topic>>

\* ------------------------------------------------------ specification
Init ==
    /\ secrets \in SUBSET SecretNames
    /\ pc = "startup"
    /\ default_openai_key = FALSE
    /\ research_topic = <<>>
    /\ errors = <<>> /\ activity_log = <<>> /\ expander = None
    /\ report_placeholder = None /\ download = None
    /\ initial_report = None /\ elaboration_input = None
    /\ enhanced_report = None
    /\ tool_calls = 0 /\ params = None /\ query = None /\ response = None
    /\ notes = 0 /\ tool_result = None
    /\ events = <<>>

Next ==
    \/ Startup
    \/ \E t \in Text : EnterTopic(t)
    \/ StartResearch
    \/ \E q \in {research_topic, <<>>}, p \in ParamChoices, resp \in Responses :
          CallTool(q, p, resp)
    \/ \E a \in Activities : DeliverActivity(a)
    \/ ServiceAnswers
    \/ \E r \in Text : ResearchReturns(r)
    \/ \E e \in ExcMsgs : ResearchRaises(e)
    \/ StartElaboration
    \/ \E r \in FinalText : ElaborationReturns(r)
    \/ \E e \in ExcMsgs : ElaborationRaises(e)
    \/ Rerun

Spec == Init /\ [][Next]_vars

\* ------------------------------------------------------------- claims
\* The st.error messages of the handler's except clause (line 183).
PipelineErrors == SelectSeq(errors, LAMBDA m : Head(m) = "An error occurred: ")

\* The st.error messages of deep_research's except clause (line 89).
AdapterErrors == SelectSeq(errors, LAMBDA m : Head(m) = "Deep research error: ")

Before(a, b) ==
    \A i \in DOMAIN events :
        events[i] = b => \E j \in 1..(i - 1) : events[j] = a

ResearchEvents ==
    {"research_start", "tool_call", "tool_return", "research_return",
     "research_raise"}

InstructedParams ==
    BuildParams(InstructedMaxDepth, InstructedTimeLimit, InstructedMaxUrls)

\* C1: a run started with a non-empty topic ends either Done with a non-empty
\* final report presented, or Error with a non-empty message; never with a
\* presented final report and an error message together, never with neither.
C1_ExactlyOneOutcome ==
    pc \in {"done", "error"} =>
        /\ research_topic # <<>>
        /\ \/ /\ pc = "done"
              /\ report_placeholder # None
              /\ report_placeholder[1] # <<>>
           \/ /\ pc = "error"
              /\ PipelineErrors # <<>>
              /\ \A i \in DOMAIN PipelineErrors : PipelineErrors[i] # <<>>
        /\ ~(report_placeholder # None /\ PipelineErrors # <<>>)

\* C2: the elaboration agent is started only after the research agent has
\* returned a report; after a failed research invocation it is never started;
\* no step of the research invocation follows the start of the elaboration.
C2_ElaborationAfterResearch ==
    /\ Before("research_return", "elab_start")
    /\ "research_raise" \in Range(events) => "elab_start" \notin Range(events)
    /\ \A i \in DOMAIN events :
          events[i] = "elab_start" =>
              \A k \in (i + 1)..Len(events) : events[k] \notin ResearchEvents
    /\ pc = "elaboration" => initial_report # None
    /\ pc \in {"research", "tool"} => "elab_start" \notin Range(events)

C2_Witness ==
    /\ pc = "elaboration"
    /\ "tool_return" \in Range(events)
    /\ initial_report # None

\* C3: deep_research never raises: a call whose service call raises or whose
\* response is malformed returns success = false with an error message, and
\* the pipeline is not in its Error state when the call has returned.
C3_AdapterNeverRaises ==
    /\ tool_result # None =>
          /\ ~tool_result[1].raised
          /\ TryBody(response[1]).raised =>
                /\ tool_result[1].value.success = FALSE
                /\ "error" \in DOMAIN tool_result[1].value
    /\ (events # <<>> /\ events[Len(events)] = "tool_return") => pc = "research"

C3_Witness ==
    /\ tool_result # None
    /\ response[1].kind = "raise"
    /\ AdapterErrors # <<>>
    /\ pc = "research"

\* C4: every result deep_research returns, also for an empty query, is fully
\* successful (success, final_analysis, sources_count = length of sources,
\* sources, no error) or fully failed (success = false, error, nothing else).
C4_ResultFullyOneShape ==
    tool_result # None =>
        LET v == tool_result[1].value IN
        \/ /\ DOMAIN v = {"success", "final_analysis", "sources_count", "sources"}
           /\ v.success = TRUE
           /\ v.sources_count = Len(v.sources)
        \/ /\ DOMAIN v = {"success", "error"}
           /\ v.success = FALSE

C4_Witness ==
    /\ tool_result # None
    /\ query = <<>>
    /\ tool_result[1].value.success = TRUE
    /\ tool_result[1].value.sources_count = MaxSources

\* C5: when either agent invocation fails, the run is in Error with a message
\* shown, the report placeholder is not written and no download is offered,
\* also when the initial report is already shown.
C5_NoFinalReportOnFailure ==
    ("research_raise" \in Range(events) \/ "elab_raise" \in Range(events)) =>
        /\ pc = "error"
        /\ PipelineErrors # <<>>
        /\ report_placeholder = None
        /\ download = None
        /\ enhanced_report = None

C5_Witness ==
    /\ "elab_raise" \in Range(events)
    /\ expander # None
    /\ expander[1] # <<>>

\* C6: the parameters handed to the research service are always
\* maxDepth = 3, timeLimit = 180, maxUrls = 10.
C6_ParamsAlwaysFixed ==
    params # None => params[1] = InstructedParams

\* C7: the elaboration agent's input contains the research agent's report
\* in full and the topic, each as a contiguous piece.
C7_InputHoldsReportAndTopic ==
    elaboration_input # None =>
        /\ IsSubstring(initial_report[1], elaboration_input[1])
        /\ IsSubstring(research_topic, elaboration_input[1])

C7_Witness ==
    /\ elaboration_input # None
    /\ Len(initial_report[1]) = MaxLen
    /\ research_topic # initial_report[1]
    /\ ~IsSubstring(initial_report[1], research_topic)

\* C8: with a secret absent the script halts at startup: no topic is taken,
\* no run starts, no agent and no tool is invoked.
C8_MissingSecretHalts ==
    secrets # SecretNames =>
        /\ pc \in {"startup", "halted"}
        /\ pc = "halted" => errors = <<ApiKeysMsg>>
        /\ research_topic = <<>>
        /\ events = <<>>
        /\ tool_calls = 0
        /\ initial_report = None /\ enhanced_report = None
        /\ ~default_openai_key \/ "openai_api_key" \in secrets

C8_Witness ==
    /\ pc = "halted"
    /\ secrets = {"openai_api_key"}
    /\ errors = <<ApiKeysMsg>>

\* C9: the initial report is shown before the elaboration agent is started,
\* and stays shown whatever the elaboration stage does.
C9_InitialReportShownFirst ==
    /\ Before("show_initial", "elab_start")
    /\ initial_report # None => expander = initial_report

C9_Witness ==
    /\ pc = "error"
    /\ "elab_start" \in Range(events)
    /\ expander = initial_report
    /\ Len(expander[1]) = MaxLen

\* C10: notifications are informational only: when the answer of the research
\* service alone makes deep_research succeed, the call returns that success
\* result, whatever notifications were delivered before the answer; no
\* notification turns it into a failed result or alters a field of it.
C10_NotificationsDoNotAlterResult ==
    (tool_result # None /\ ~TryBody(response[1]).raised) =>
        tool_result[1].value = Outcome(TryBody(response[1])).value
====
